---- MODULE Spec2Model ----
(***************************************************************************)
(* Model of bridgelessqiu/Quantum-Optimization, src/model/util:            *)
(*   create_dependency.py  create_dependency(): the dependency graph of    *)
(*                         the two-qubit gates of a circuit;               *)
(*   create_dataset.py     CircuitDataset: the labelled dataset of graph   *)
(*                         variants built from an edge file and an         *)
(*                         attribute file.                                 *)
(* Python indices are kept zero-based in the variables; a sequence s is    *)
(* read at Python index k as s[k + 1].                                     *)
(***************************************************************************)
EXTENDS Integers, Sequences, FiniteSets, TLC

VARIABLES
    \* ---- create_dependency ----
    gates,          \* list of (control, target) qubit index pairs, line 54
    G,              \* adjacency lists, line 70
    bi,             \* outer loop index i, line 72
    bj,             \* inner loop index j, line 73
    bpc,            \* position in create_dependency
    edge_out,       \* the lines "u v" written to the edge file, lines 90-93
    \* ---- CircuitDataset ----
    edge_exists,    \* the raw edge file is present
    attr_exists,    \* the raw attribute file is present
    edge_lines,     \* raw edge file: one token list (strip().split()) per line
    attr_json,      \* raw attribute file: the JSON object's values, in order
    pc,             \* position in the construction of the dataset
    err,            \* the exception that ended the build, or "none"
    num_edges,      \* self.num_edges, lines 35-40
    edges,          \* process: edges (columns of the 2 x m tensor), line 84
    node_features,  \* process: node_features, line 96
    num_remove,     \* process: loop variable, line 101
    wi,             \* process: loop variable i, line 108
    ind,            \* process: position counter, line 99
    graph_class,    \* process: class counter, line 100
    arg_edges,      \* generate_data: parameter edges
    arg_label,      \* generate_data: parameter label
    k,              \* generate_data: loop variable i, line 118
    persisted,      \* processed dir: position -> saved Data, line 123
    emitted         \* history: the (num_remove, i, label) of each generate_data call

depVars  == <<gates, G, bi, bj, bpc, edge_out>>
dataVars == <<edge_exists, attr_exists, edge_lines, attr_json, pc, err, num_edges,
              edges, node_features, num_remove, wi, ind, graph_class, arg_edges,
              arg_label, k, persisted, emitted>>
vars     == <<depVars, dataVars>>

\* ------------------------------------------------------------------ bounds
MaxGates == 4
MaxLines == 4
MaxAttr  == 1

\* Qubit indices of the modelled circuits.
Qubits == {0, 1, 2}

SeqsUpTo(S, n) == UNION {[1..len -> S] : len \in 0..n}

Min(S) == CHOOSE x \in S : \A y \in S : x <= y

\* =================================================================
\* create_dependency
\* =================================================================

\* A gate is tuple(qubit_indices) of a two-qubit operation: (control, target),
\* two distinct qubits.
GatePairs == {p \in Qubits \X Qubits : p[1] # p[2]}

\* line 75: gates[i][1] == gates[j][1]
TargetEqualsTarget(gi, gj) == gi[2] = gj[2]

\* line 79: gates[i][1] == gates[j][0]
TargetEqualsControl_Swapped(gi, gj) == gi[1] = gj[2]
TargetEqualsControl(gi, gj) == gi[2] = gj[1]

\* lines 75-80, one iteration of the inner loop: whether j is appended to G[i]
\* and whether the loop over j is left by break.
ScanStep_NoBreak(gi, gj) ==
    [append |-> TargetEqualsTarget(gi, gj) \/ TargetEqualsControl(gi, gj),
     brk    |-> FALSE]
ScanStep_BreakOnControl(gi, gj) ==
    [append |-> TargetEqualsTarget(gi, gj) \/ TargetEqualsControl(gi, gj),
     brk    |-> TargetEqualsTarget(gi, gj) \/ TargetEqualsControl(gi, gj)]
ScanStep(gi, gj) ==
    IF TargetEqualsTarget(gi, gj)
    THEN [append |-> TRUE, brk |-> TRUE]
    ELSE IF TargetEqualsControl(gi, gj)
         THEN [append |-> TRUE, brk |-> FALSE]
         ELSE [append |-> FALSE, brk |-> FALSE]

\* lines 90-93: the edge list, sources in increasing order, each source's
\* destinations in list order.
RECURSIVE EdgeList(_, _)
EdgeList(adj, u) ==
    IF u >= Len(adj) THEN <<>>
    ELSE [x \in 1..Len(adj[u + 1]) |-> <<u, adj[u + 1][x]>>] \o EdgeList(adj, u + 1)

InitDep ==
    /\ gates \in SeqsUpTo(GatePairs, MaxGates)
    /\ G = [x \in 1..Len(gates) |-> <<>>]
    /\ bi = 0
    /\ bj = 0
    /\ bpc = "outer"
    /\ edge_out = <<>>
    \* the dataset is not under construction
    /\ edge_exists = FALSE /\ attr_exists = FALSE
    /\ edge_lines = <<>> /\ attr_json = <<>>
    /\ pc = "idle" /\ err = "none" /\ num_edges = 0
    /\ edges = <<>> /\ node_features = <<>>
    /\ num_remove = 0 /\ wi = 0 /\ ind = 0 /\ graph_class = 0
    /\ arg_edges = <<>> /\ arg_label = 0 /\ k = 0
    /\ persisted = <<>> /\ emitted = <<>>

\* line 72: for i in range(n-1)
OuterEnter ==
    /\ UNCHANGED dataVars
    /\ bpc = "outer"
    /\ bi < Len(gates) - 1
    /\ bj' = bi + 1
    /\ bpc' = "inner"
    /\ UNCHANGED <<gates, G, bi, edge_out>>

OuterExit ==
    /\ UNCHANGED dataVars
    /\ bpc = "outer"
    /\ ~(bi < Len(gates) - 1)
    /\ bpc' = "write"
    /\ UNCHANGED <<gates, G, bi, bj, edge_out>>

\* lines 73-80: one iteration of for j in range(i+1, n)
InnerStep ==
    /\ UNCHANGED dataVars
    /\ bpc = "inner"
    /\ bj < Len(gates)
    /\ LET s == ScanStep(gates[bi + 1], gates[bj + 1]) IN
        /\ G' = IF s.append THEN [G EXCEPT ![bi + 1] = Append(@, bj)] ELSE G
        /\ IF s.brk
           THEN /\ bi' = bi + 1
                /\ bpc' = "outer"
                /\ bj' = bj
           ELSE /\ bj' = bj + 1
                /\ UNCHANGED <<bi, bpc>>
    /\ UNCHANGED <<gates, edge_out>>

\* line 73: the range over j is exhausted
InnerExit ==
    /\ UNCHANGED dataVars
    /\ bpc = "inner"
    /\ ~(bj < Len(gates))
    /\ bi' = bi + 1
    /\ bpc' = "outer"
    /\ UNCHANGED <<gates, G, bj, edge_out>>

\* lines 90-93
WriteEdges ==
    /\ UNCHANGED dataVars
    /\ bpc = "write"
    /\ edge_out' = EdgeList(G, 0)
    /\ bpc' = "done"
    /\ UNCHANGED <<gates, G, bi, bj>>

NextDep ==
    OuterEnter \/ OuterExit \/ InnerStep \/ InnerExit \/ WriteEdges

\* =================================================================
\* CircuitDataset
\* =================================================================

\* line 33: self.max_num_edge_remove
max_num_edge_remove == 2
\* line 34: self.num_instances
num_instances == 10

\* The tokens of the modelled edge files and what int() makes of them
\* (line 82); int("x") raises ValueError.
IntTokens == {"0", "1", "2"}
IntOf(tok) == CASE tok = "0" -> 0 [] tok = "1" -> 1 [] tok = "2" -> 2

\* The lines of the modelled edge files, as edge.strip().split() sees them:
\* three well-formed edges, a blank line, a line of one token, a line of
\* three tokens and a line with a non-integer field.
LineChoices ==
    { <<"0", "1">>, <<"1", "2">>, <<"0", "2">>,
      <<>>, <<"0">>, <<"0", "1", "2">>, <<"0", "x">> }

\* The entries of the modelled attribute files (lines 62-66 of
\* create_dependency.py write them): a controlled-X and a controlled-Z gate.
AttrChoices ==
    { [gate |-> "cx", qubit_1 |-> 0, qubit_2 |-> 1],
      [gate |-> "cz", qubit_1 |-> 1, qubit_2 |-> 2] }

\* lines 37-40: the number of lines with edge.strip() non-empty
RECURSIVE CountNonBlank(_)
CountNonBlank(lines) ==
    IF lines = <<>> THEN 0
    ELSE (IF Len(Head(lines)) > 0 THEN 1 ELSE 0) + CountNonBlank(Tail(lines))

\* line 82: src, dst = map(int, edge.strip().split()) succeeds iff the line
\* has exactly two tokens and both are integers; otherwise ValueError.
LineParses(tokens) ==
    /\ Len(tokens) = 2
    /\ \A x \in 1..2 : tokens[x] \in IntTokens

\* lines 79-83: the edges read line by line; ok is FALSE when a line raised.
RECURSIVE ParseEdges_SkipBlank(_)
ParseEdges_SkipBlank(lines) ==
    IF lines = <<>> THEN [ok |-> TRUE, edges |-> <<>>]
    ELSE IF Len(Head(lines)) = 0 THEN ParseEdges_SkipBlank(Tail(lines))
    ELSE IF ~LineParses(Head(lines)) THEN [ok |-> FALSE, edges |-> <<>>]
    ELSE LET rest == ParseEdges_SkipBlank(Tail(lines)) IN
         [ok    |-> rest.ok,
          edges |-> IF rest.ok
                    THEN <<<<IntOf(Head(lines)[1]), IntOf(Head(lines)[2])>>>> \o rest.edges
                    ELSE <<>>]
RECURSIVE ParseEdges(_)
ParseEdges(lines) ==
    IF lines = <<>> THEN [ok |-> TRUE, edges |-> <<>>]
    ELSE IF ~LineParses(Head(lines)) THEN [ok |-> FALSE, edges |-> <<>>]
    ELSE LET rest == ParseEdges(Tail(lines)) IN
         [ok    |-> rest.ok,
          edges |-> IF rest.ok
                    THEN <<<<IntOf(Head(lines)[1]), IntOf(Head(lines)[2])>>>> \o rest.edges
                    ELSE <<>>]

\* line 84: torch.tensor([]).t() is one-dimensional, so edges.size(1) at
\* line 108 raises IndexError when no edge was read.
HasNoColumnDim(E) == Len(E) = 0

\* line 92: the gate types the feature mapping tests for
KnownGateTypes == {"cx"}

\* line 92: gate = 1 if attrs['gate'] == 'cx' else 1
GateFeature(tag) == IF tag = "cx" THEN 1 ELSE 1

\* lines 91-96
NodeFeatures(json) ==
    [x \in 1..Len(json) |->
        <<GateFeature(json[x].gate), json[x].qubit_1, json[x].qubit_2>>]

\* lines 58-60: total after the loop over i in range(1, max_num_edge_remove + 1)
RECURSIVE TotalFrom(_, _)
TotalFrom(m, i) ==
    IF i > max_num_edge_remove THEN 0
    ELSE (m - i + 1) * num_instances + TotalFrom(m, i + 1)
Total(m) == num_instances + TotalFrom(m, 1)

\* lines 62 and 128-129: len() is the length of the list over range(total)
DatasetLen(m) == IF Total(m) > 0 THEN Total(m) ELSE 0

\* line 108: range(edges.size(1) - num_remove + 1)
WindowCount_OffByOne(m, w) == m - w
WindowCount(m, w) == m - w + 1

\* line 109: torch.cat((edges[:, :i], edges[:, i + num_remove : edges.size(1)]), dim = 1)
UpdatedEdges_OffByOne(E, i, w) == SubSeq(E, 1, i) \o SubSeq(E, i + w + 2, Len(E))
UpdatedEdges(E, i, w) == SubSeq(E, 1, i) \o SubSeq(E, i + w + 1, Len(E))

\* lines 119-122: Data(x = node_features, edge_index = edges, y = label)
Data(x, e, y) == [x |-> x, edge_index |-> e, y |-> y]

\* line 118: for i in range(self.num_instances)
ReplicaCount_OneShort == num_instances - 1
ReplicaCount == num_instances

\* line 124: ind += 1
NextInd_Stuck(p) == p
NextInd(p) == p + 1

InitData ==
    /\ edge_exists \in BOOLEAN
    /\ attr_exists \in BOOLEAN
    /\ edge_lines \in (IF edge_exists THEN SeqsUpTo(LineChoices, MaxLines) ELSE {<<>>})
    /\ attr_json \in (IF attr_exists THEN SeqsUpTo(AttrChoices, MaxAttr) ELSE {<<>>})
    /\ pc = "init"
    /\ err = "none"
    /\ num_edges = 0
    /\ edges = <<>>
    /\ node_features = <<>>
    /\ num_remove = 0
    /\ wi = 0
    /\ ind = 0
    /\ graph_class = 0
    /\ arg_edges = <<>>
    /\ arg_label = 0
    /\ k = 0
    /\ persisted = <<>>
    /\ emitted = <<>>
    \* create_dependency is not running
    /\ gates = <<>> /\ G = <<>> /\ bi = 0 /\ bj = 0
    /\ bpc = "idle" /\ edge_out = <<>>

\* lines 30-40: __init__ up to the call of super().__init__
CountEdges ==
    /\ UNCHANGED depVars
    /\ pc = "init"
    /\ IF edge_exists
       THEN /\ num_edges' = CountNonBlank(edge_lines)
            /\ pc' = "download"
            /\ err' = err
       ELSE /\ pc' = "failed"
            /\ err' = "FileNotFoundError"
            /\ num_edges' = num_edges
    /\ UNCHANGED <<edge_exists, attr_exists, edge_lines, attr_json, edges,
                   node_features, num_remove, wi, ind, graph_class, arg_edges,
                   arg_label, k, persisted, emitted>>

\* line 42 and lines 64-69: super().__init__ calls download() when a raw file
\* is missing, and process() otherwise (the processed dir holds no sample yet).
Download ==
    /\ UNCHANGED depVars
    /\ pc = "download"
    /\ IF attr_exists /\ edge_exists
       THEN pc' = "parse" /\ err' = err
       ELSE pc' = "failed" /\ err' = "FileNotFoundError"
    /\ UNCHANGED <<edge_exists, attr_exists, edge_lines, attr_json, num_edges, edges,
                   node_features, num_remove, wi, ind, graph_class, arg_edges,
                   arg_label, k, persisted, emitted>>

\* lines 75-100: process reads the edges and the features, then sets the counters
ReadRaw ==
    /\ UNCHANGED depVars
    /\ pc = "parse"
    /\ LET r == ParseEdges(edge_lines) IN
       IF r.ok
       THEN /\ edges' = r.edges
            /\ node_features' = NodeFeatures(attr_json)
            /\ ind' = 0
            /\ graph_class' = 0
            /\ num_remove' = 0
            /\ pc' = "loop"
            /\ err' = err
       ELSE /\ pc' = "failed"
            /\ err' = "ValueError"
            /\ UNCHANGED <<edges, node_features, ind, graph_class, num_remove>>
    /\ UNCHANGED <<edge_exists, attr_exists, edge_lines, attr_json, num_edges,
                   wi, arg_edges, arg_label, k, persisted, emitted>>

\* lines 102-104: the full edge list is handed to generate_data
FullVariant ==
    /\ UNCHANGED depVars
    /\ pc = "loop"
    /\ num_remove <= max_num_edge_remove
    /\ num_remove = 0
    /\ arg_edges' = edges
    /\ arg_label' = graph_class
    /\ k' = 0
    /\ emitted' = Append(emitted, [w |-> num_remove, i |-> 0, label |-> graph_class])
    /\ pc' = "generate"
    /\ UNCHANGED <<edge_exists, attr_exists, edge_lines, attr_json, err, num_edges,
                   edges, node_features, num_remove, wi, ind, graph_class,
                   persisted>>

\* line 108: edges.size(1) of a tensor without a second dimension
SizeError ==
    /\ UNCHANGED depVars
    /\ pc = "loop"
    /\ num_remove \in 1..max_num_edge_remove
    /\ HasNoColumnDim(edges)
    /\ pc' = "failed"
    /\ err' = "IndexError"
    /\ UNCHANGED <<edge_exists, attr_exists, edge_lines, attr_json, num_edges,
                   edges, node_features, num_remove, wi, ind, graph_class, arg_edges,
                   arg_label, k, persisted, emitted>>

\* lines 108-111: the next window of size num_remove is removed
WindowVariant ==
    /\ UNCHANGED depVars
    /\ pc = "loop"
    /\ num_remove \in 1..max_num_edge_remove
    /\ ~HasNoColumnDim(edges)
    /\ wi < WindowCount(Len(edges), num_remove)
    /\ arg_edges' = UpdatedEdges(edges, wi, num_remove)
    /\ arg_label' = graph_class
    /\ k' = 0
    /\ emitted' = Append(emitted, [w |-> num_remove, i |-> wi, label |-> graph_class])
    /\ pc' = "generate"
    /\ UNCHANGED <<edge_exists, attr_exists, edge_lines, attr_json, err, num_edges,
                   edges, node_features, num_remove, wi, ind, graph_class,
                   persisted>>

\* lines 101 and 108: the offsets of this window size are exhausted
WindowsExhausted ==
    /\ UNCHANGED depVars
    /\ pc = "loop"
    /\ num_remove \in 1..max_num_edge_remove
    /\ ~HasNoColumnDim(edges)
    /\ ~(wi < WindowCount(Len(edges), num_remove))
    /\ num_remove' = num_remove + 1
    /\ wi' = 0
    /\ UNCHANGED <<edge_exists, attr_exists, edge_lines, attr_json, pc, err, num_edges,
                   edges, node_features, ind, graph_class, arg_edges,
                   arg_label, k, persisted, emitted>>

\* line 101: range(self.max_num_edge_remove + 1) is exhausted
Finish ==
    /\ UNCHANGED depVars
    /\ pc = "loop"
    /\ num_remove > max_num_edge_remove
    /\ pc' = "done"
    /\ UNCHANGED <<edge_exists, attr_exists, edge_lines, attr_json, err, num_edges,
                   edges, node_features, num_remove, wi, ind, graph_class, arg_edges,
                   arg_label, k, persisted, emitted>>

\* lines 118-124: one iteration of generate_data's loop
SaveSample ==
    /\ UNCHANGED depVars
    /\ pc = "generate"
    /\ k < ReplicaCount
    /\ persisted' = [p \in DOMAIN persisted \cup {ind} |->
                        IF p = ind THEN Data(node_features, arg_edges, arg_label)
                        ELSE persisted[p]]
    /\ ind' = NextInd(ind)
    /\ k' = k + 1
    /\ UNCHANGED <<edge_exists, attr_exists, edge_lines, attr_json, pc, err, num_edges,
                   edges, node_features, num_remove, wi, graph_class, arg_edges,
                   arg_label, emitted>>

\* line 126, then lines 104-105 or 111-112: generate_data returns ind, the
\* class counter is incremented and the enclosing loop advances
GenerateReturn ==
    /\ UNCHANGED depVars
    /\ pc = "generate"
    /\ ~(k < ReplicaCount)
    /\ graph_class' = graph_class + 1
    /\ IF num_remove = 0
       THEN num_remove' = 1 /\ wi' = 0
       ELSE num_remove' = num_remove /\ wi' = wi + 1
    /\ pc' = "loop"
    /\ UNCHANGED <<edge_exists, attr_exists, edge_lines, attr_json, err, num_edges,
                   edges, node_features, ind, arg_edges, arg_label, k,
                   persisted, emitted>>

\* lines 131-133: get(ind) loads the sample saved under position ind; a
\* read of the processed dir that changes nothing.
Get(p) == persisted[p]

NextData ==
    \/ CountEdges \/ Download \/ ReadRaw
    \/ FullVariant \/ SizeError \/ WindowVariant \/ WindowsExhausted \/ Finish
    \/ SaveSample \/ GenerateReturn


\* =================================================================
\* Properties of create_dependency (checked under SpecDep)
\* =================================================================

N == Len(gates)
Built == bpc = "done"
Adj(i) == G[i + 1]
Dests(i) == {Adj(i)[x] : x \in 1..Len(Adj(i))}
StrictlyIncreasing(s) == \A x \in 1..Len(s), y \in 1..Len(s) : x < y => s[x] < s[y]
SameTarget(i, j) == gates[j + 1][2] = gates[i + 1][2]
\* The second rule as the spec words it: gate[j].target == gate[i].control.
ControlRuleAsWorded(i, j) == gates[j + 1][2] = gates[i + 1][1]
\* The second rule with the roles exchanged: gate[j].control == gate[i].target.
ControlRuleExchanged(i, j) == gates[j + 1][1] = gates[i + 1][2]
\* No gate strictly between i and j has the target of gate i.
NoStopBefore(i, j) == \A x \in (i + 1)..(j - 1) : ~SameTarget(i, x)
\* The later gates with the target of gate i.
LaterSameTarget(i) == {j \in (i + 1)..(N - 1) : SameTarget(i, j)}

\* C1 (as worded): once the graph is built, the edges out of every source i
\* are, in increasing order, exactly the j > i not preceded by a same-target
\* gate for which gate[j].target == gate[i].target or
\* gate[j].target == gate[i].control.
C1_AsWorded ==
    Built =>
        \A i \in 0..(N - 1) :
            /\ StrictlyIncreasing(Adj(i))
            /\ Dests(i) = {j \in (i + 1)..(N - 1) :
                             /\ NoStopBefore(i, j)
                             /\ (SameTarget(i, j) \/ ControlRuleAsWorded(i, j))}

\* C1 (amended): the same, with the second rule reading
\* gate[j].control == gate[i].target.
C1_ScanRule ==
    Built =>
        \A i \in 0..(N - 1) :
            /\ StrictlyIncreasing(Adj(i))
            /\ Dests(i) = {j \in (i + 1)..(N - 1) :
                             /\ NoStopBefore(i, j)
                             /\ (SameTarget(i, j) \/ ControlRuleExchanged(i, j))}

\* A built graph where some source has a second-rule edge, then its
\* same-target edge, and a later gate that would match had the scan gone on.
C1_Witness ==
    /\ Built
    /\ \E i \in 0..(N - 1) : \E a, b, c \in 0..(N - 1) :
        /\ i < a /\ a < b /\ b < c
        /\ ControlRuleExchanged(i, a) /\ ~SameTarget(i, a) /\ a \in Dests(i)
        /\ SameTarget(i, b) /\ b \in Dests(i)
        /\ ControlRuleExchanged(i, c) /\ c \notin Dests(i)

\* C2: at every point of the construction every edge (i, j) has i < j and
\* every source has at most one edge to a gate with its own target; the edge
\* list written for a sequence of at most one gate is empty.
C2_ForwardAtMostOneStop ==
    /\ \A i \in 0..(N - 1) :
        /\ \A j \in Dests(i) : i < j
        /\ Cardinality({x \in 1..Len(Adj(i)) : SameTarget(i, Adj(i)[x])}) <= 1
    /\ \A x \in 1..Len(edge_out) : edge_out[x][1] < edge_out[x][2]
    /\ (Built /\ N <= 1) => (edge_out = <<>> /\ \A i \in 0..(N - 1) : Adj(i) = <<>>)

\* A built graph where a source has two later gates with its target, an edge
\* to the first of them and edges written to the file.
C2_Witness ==
    /\ Built
    /\ edge_out # <<>>
    /\ \E i \in 0..(N - 1) : \E a, b \in LaterSameTarget(i) :
        a < b /\ a \in Dests(i) /\ b \notin Dests(i)

M == Len(edges)
Positions == DOMAIN persisted
\* process got past reading the raw files
Generated == pc \in {"loop", "generate", "done"} \/ (pc = "failed" /\ err = "IndexError")
\* process came to its end, normally or by the exception of line 108
ProcessEnded == pc = "done" \/ (pc = "failed" /\ err = "IndexError")
\* E without the w entries at Python positions i .. i+w-1
Removed(E, i, w) == [x \in 1..(Len(E) - w) |-> IF x <= i THEN E[x] ELSE E[x + w]]
\* 1 + sum over w in 1..W of (m - w + 1)
RECURSIVE SumWindows(_, _)
SumWindows(m, w) == IF w = 0 THEN 0 ELSE (m - w + 1) + SumWindows(m, w - 1)
VariantCount(m) == 1 + SumWindows(m, max_num_edge_remove)
\* The (window size, offset) of the variant with label c, for W = 2: the full
\* list, then the m windows of size 1, then the m - 1 windows of size 2.
WindowOf(m, c) ==
    IF c = 0 THEN [w |-> 0, i |-> 0]
    ELSE IF c <= m THEN [w |-> 1, i |-> c - 1]
    ELSE [w |-> 2, i |-> c - m - 1]
VariantEdges(E, c) == Removed(E, WindowOf(Len(E), c).i, WindowOf(Len(E), c).w)
MalformedLine(tokens) == Len(tokens) # 2 \/ \E x \in 1..Len(tokens) : tokens[x] \notin IntTokens
BadInput == ~edge_exists \/ ~attr_exists \/ \E x \in 1..Len(edge_lines) : MalformedLine(edge_lines[x])
InputFailure == pc = "failed" /\ err \in {"FileNotFoundError", "ValueError"}

\* C3: when process is done on m >= W = 2 base edges, it has generated exactly
\* 1 + sum over w in 1..W of (m - w + 1) variants, labelled 0, 1, .., V-1 in
\* generation order: the full list, then window size 1 with offsets 0..m-1,
\* then window size 2 with offsets 0..m-2.
C3_VariantCountAndOrder ==
    (pc = "done" /\ M >= max_num_edge_remove) =>
        /\ graph_class = VariantCount(M)
        /\ Len(emitted) = VariantCount(M)
        /\ \A x \in 1..Len(emitted) :
            /\ emitted[x].label = x - 1
            /\ emitted[x].w = WindowOf(M, x - 1).w
            /\ emitted[x].i = WindowOf(M, x - 1).i

\* process done on four base edges: eight variants, the last one window
\* size 2 at offset 2 with label 7.
C3_Witness ==
    /\ pc = "done"
    /\ M = 4
    /\ graph_class = 8
    /\ emitted[8] = [w |-> 2, i |-> 2, label |-> 7]

\* C4: when process has ended, len() equals R times the number of variants
\* and the number of samples persisted (the position counter ind), and the
\* persisted positions are exactly 0..len()-1, for every m >= 0.
C4_LenMatchesPersisted ==
    ProcessEnded =>
        /\ DatasetLen(num_edges) = num_instances * graph_class
        /\ DatasetLen(num_edges) = ind
        /\ Positions = 0..(DatasetLen(num_edges) - 1)

\* C5: the persisted positions are dense from 0; the sample at position p,
\* which get(p) returns, has label floor(p / R) and the edge list of the
\* variant with that label; and when generate_data starts on a variant the
\* position counter is R times the class counter.
C5_PositionOrder ==
    /\ Positions = 0..(ind - 1)
    /\ \A p \in Positions :
        /\ Get(p).y = p \div num_instances
        /\ Get(p).edge_index = VariantEdges(edges, p \div num_instances)
    /\ (pc = "generate" /\ k = 0) => ind = num_instances * graph_class

\* process done on three distinct base edges: positions 0..9 hold the full
\* list, position 10 the list without its first edge.
C5_Witness ==
    /\ pc = "done"
    /\ M = 3
    /\ Cardinality({edges[x] : x \in 1..M}) = 3
    /\ \A p \in 0..9 : Get(p).edge_index = edges /\ Get(p).y = 0
    /\ Get(10).edge_index = Tail(edges) /\ Get(10).y = 1
    /\ Get(59).y = 5

\* C6: every variant whose generation is complete has exactly R samples,
\* identical in features, edges and label; every sample carries the node
\* features read from the attribute file; and the base edge list stays the
\* one read from the edge file (it is the edge list of the sample at 0).
C6_ReplicasAndFrame ==
    /\ \A c \in 0..(graph_class - 1) :
          LET copies == {p \in Positions : persisted[p].y = c} IN
              /\ Cardinality(copies) = num_instances
              /\ Cardinality({persisted[p] : p \in copies}) = 1
    /\ \A p \in Positions : persisted[p].x = node_features
    /\ 0 \in Positions => persisted[0].edge_index = edges
    /\ Generated =>
          /\ node_features = NodeFeatures(attr_json)
          /\ edges = ParseEdges(edge_lines).edges

\* process done with a node and at least two base edges: several complete
\* variants sharing the one feature matrix.
C6_Witness ==
    /\ pc = "done"
    /\ M >= 2
    /\ Len(node_features) = 1
    /\ graph_class >= 4
    /\ persisted[0].x = persisted[ind - 1].x
    /\ persisted[0].edge_index # persisted[ind - 1].edge_index

\* C7: when the attribute file holds a gate whose type is not in the known
\* vocabulary, feature mapping fails: no feature matrix is built and
\* generation never starts.
C7_UnknownGateRejected ==
    (\E x \in 1..Len(attr_json) : attr_json[x].gate \notin KnownGateTypes) =>
        /\ node_features = <<>>
        /\ ~Generated

\* C8: a missing edge or attribute file or a malformed edge line (a blank
\* line included) ends the build in an error with nothing persisted: a run
\* that ended in such a failure has persisted no sample, a bad input never
\* reaches generation, and the edges generation works on are one per line.
C8_AbortBeforePersist ==
    /\ InputFailure => (persisted = <<>> /\ ind = 0)
    /\ BadInput =>
          /\ ~Generated
          /\ persisted = <<>>
          /\ pc \notin {"init", "download", "parse"} => InputFailure
    /\ Generated => Len(edges) = Len(edge_lines)

\* A build that ended in ValueError on an edge file holding a well-formed
\* line and a blank line.
C8_Witness ==
    /\ InputFailure
    /\ err = "ValueError"
    /\ \E x \in 1..Len(edge_lines), y \in 1..Len(edge_lines) :
          edge_lines[x] = <<>> /\ ~MalformedLine(edge_lines[y])
    /\ persisted = <<>>

\* C10: the variant handed to generate_data for window size w and offset i,
\* and every sample persisted for it, has the m - w edges E[0..i) followed by
\* E[i+w..m); the first variant is E; and when process is done every (w, i)
\* with w in 1..W and i in 0..m-w has been generated.
C10_WindowRemoved ==
    /\ pc = "generate" =>
          /\ (num_remove = 0 => arg_edges = edges)
          /\ (num_remove >= 1 => wi \in 0..(M - num_remove))
          /\ Len(arg_edges) = M - num_remove
          /\ \A x \in 1..Len(arg_edges) :
                arg_edges[x] = IF x <= wi THEN edges[x] ELSE edges[x + num_remove]
    /\ \A p \in Positions :
          LET e == emitted[persisted[p].y + 1] IN
              /\ Len(persisted[p].edge_index) = M - e.w
              /\ persisted[p].edge_index = Removed(edges, e.i, e.w)
    /\ pc = "done" =>
          \A w \in 1..max_num_edge_remove : \A i \in 0..(M - w) :
              \E x \in 1..Len(emitted) : emitted[x].w = w /\ emitted[x].i = i

\* process done on four base edges, three of them distinct, with the sample
\* for window size 2 at offset 1 persisted.
C10_Witness ==
    /\ pc = "done"
    /\ M = 4
    /\ Cardinality({edges[x] : x \in 1..M}) = 3
    /\ \E p \in Positions :
          /\ emitted[persisted[p].y + 1] = [w |-> 2, i |-> 1, label |-> persisted[p].y]
          /\ persisted[p].edge_index = <<edges[1], edges[4]>>

SpecDep  == InitDep /\ [][NextDep]_vars
SpecData == InitData /\ [][NextData]_vars
====
